---- MODULE Spec2Model ----
(***************************************************************************)
(* Blog comment system (Cloudflare Worker, src/src/index.js) over a D1     *)
(* table (src/unnamed/part_000).                                           *)
(*                                                                         *)
(* A JavaScript string is a sequence of one-character strings.  A request  *)
(* handler is a sequence of steps separated by its awaits on the store, so *)
(* that the store statements of concurrent requests interleave.            *)
(***************************************************************************)
EXTENDS Integers, Sequences, FiniteSets, TLC

VARIABLES
    comments,   \* rows of the D1 table comments
    seq,        \* sqlite_sequence of comments: the largest id ever assigned
    now,        \* CURRENT_TIMESTAMP of the store
    env,        \* the bindings of the deployment: ADMIN_SECRET_KEY, SECRETS, DB
    pc,         \* per request slot: the await the handler is suspended at
    req,        \* per request slot: the request being handled
    loc,        \* per request slot: the handler's local variables
    ops,        \* per request slot: the store statements the request issued
    last,       \* the most recent response, with its request
    nreq,       \* the number of requests received so far
    posted,     \* history: the POSTs answered 201 and not deleted since
    deleted,    \* history: the ids whose DELETE was answered 200
    input,      \* argument of the pure function under study
    output      \* its result

vars == <<comments, seq, now, env, pc, req, loc, ops, last, nreq, posted,
          deleted, input, output>>

----------------------------------------------------------------------------
(* Bounds of the model *)

MaxReq  == 2    \* request slots: requests in flight at once
MaxRequests == 4    \* requests received in one run
MaxValidated == 2   \* requests received in one run of the validator
MaxId   == 2    \* ids the table assigns before the model stops inserting
MaxTime == 1    \* ticks of the store's clock
MaxLen  == 3    \* length of the strings the pure functions are applied to

----------------------------------------------------------------------------
(* Strings *)

Rep(c, n) == [i \in 1..n |-> c]

\* The characters String.prototype.trim removes, among those of the model.
WhiteSpace == {" "}

RECURSIVE SkipLeft(_, _)
SkipLeft(s, i) ==
    IF i > Len(s) \/ s[i] \notin WhiteSpace THEN i ELSE SkipLeft(s, i + 1)

RECURSIVE SkipRight(_, _)
SkipRight(s, i) ==
    IF i < 1 \/ s[i] \notin WhiteSpace THEN i ELSE SkipRight(s, i - 1)

\* String.prototype.trim
trim(s) == SubSeq(s, SkipLeft(s, 1), SkipRight(s, Len(s)))

\* String.prototype.replace(/c/g, rep) for a one-character pattern c.
RECURSIVE replaceAll(_, _, _)
replaceAll(s, c, rep) ==
    IF Len(s) = 0 THEN <<>>
    ELSE IF Len(s) = 1 THEN (IF s[1] = c THEN rep ELSE s)
    ELSE LET h == Len(s) \div 2
         IN  replaceAll(SubSeq(s, 1, h), c, rep)
                 \o replaceAll(SubSeq(s, h + 1, Len(s)), c, rep)

LT   == <<"&", "l", "t", ";">>
GT   == <<"&", "g", "t", ";">>
QUOT == <<"&", "q", "u", "o", "t", ";">>
APOS == <<"&", "#", "3", "9", ";">>

\* A sanitizer that also escapes the ampersand, before the other characters.
sanitizeInputAmp(s) ==
    replaceAll(replaceAll(replaceAll(replaceAll(replaceAll(trim(s),
        "&", <<"&", "a", "m", "p", ";">>), "<", LT), ">", GT), "\"", QUOT),
        "'", APOS)

\* A sanitizer that leaves the apostrophe as it is.
sanitizeInputNoApos(s) ==
    replaceAll(replaceAll(replaceAll(trim(s), "<", LT), ">", GT), "\"", QUOT)

sanitizeInput(s) ==
    replaceAll(replaceAll(replaceAll(replaceAll(trim(s),
        "<", LT), ">", GT), "\"", QUOT), "'", APOS)

----------------------------------------------------------------------------
(* new URL(string) without a base, on the characters of the model.  The    *)
(* letters are chosen so that http is the only special scheme they spell;  *)
(* there is no '@', '?', '\\', '[' or '%' and no digit in a host.           *)

Alpha  == {"a", "b", "g", "h", "l", "m", "n", "o", "p", "q", "r", "t", "u"}
Digits == {"0", "1", "2", "3", "7", "9"}

SpecialSchemes == { <<"h", "t", "t", "p">> }

\* Forbidden host code points (and forbidden domain code points) of the model.
ForbiddenHost == {" ", "<", ">", "#", "/", ":"}

\* First index from i on whose character is not in S, Len(s) + 1 if none.
RECURSIVE SkipWhile(_, _, _)
SkipWhile(s, i, S) ==
    IF i > Len(s) \/ s[i] \notin S THEN i ELSE SkipWhile(s, i + 1, S)

\* First index from i on whose character is in S, Len(s) + 1 if none.
RECURSIVE SkipUntil(_, _, _)
SkipUntil(s, i, S) ==
    IF i > Len(s) \/ s[i] \in S THEN i ELSE SkipUntil(s, i + 1, S)

DigitVal(c) == CASE c = "0" -> 0 [] c = "1" -> 1 [] c = "2" -> 2
                 [] c = "3" -> 3 [] c = "7" -> 7 [] c = "9" -> 9

\* Decimal value of a string of digits, saturating above the largest port.
RECURSIVE DecVal(_, _, _)
DecVal(s, i, acc) ==
    IF i > Len(s) THEN acc
    ELSE IF acc > 65535 THEN acc
    ELSE DecVal(s, i + 1, acc * 10 + DigitVal(s[i]))

\* Host state and port state on the authority a (no credentials).
AuthorityParses(a, special) ==
    LET c    == SkipUntil(a, 1, {":"})
        host == SubSeq(a, 1, c - 1)
        port == SubSeq(a, c + 1, Len(a))
    IN  /\ \A i \in 1..Len(host) : host[i] \notin ForbiddenHost
        /\ (c <= Len(a)) => /\ Len(host) > 0
                            /\ \A i \in 1..Len(port) : port[i] \in Digits
                            /\ DecVal(port, 1, 0) <= 65535
        /\ special => Len(host) > 0

\* TRUE iff new URL(s) returns, FALSE iff it throws TypeError.
URLParses(s) ==
    LET t == trim(s)       \* leading and trailing C0 control or space
        k == SkipWhile(t, 1, Alpha \cup Digits)
    IN  /\ Len(t) > 0
        /\ t[1] \in Alpha                        \* scheme start state
        /\ k <= Len(t) /\ t[k] = ":"              \* scheme state
        /\ LET scheme == SubSeq(t, 1, k - 1)
               rest   == SubSeq(t, k + 1, Len(t))
           IN  IF scheme \in SpecialSchemes
               THEN \* special authority (ignore) slashes state
                    LET b == SkipWhile(rest, 1, {"/"})
                        e == SkipUntil(rest, b, {"/", "#"})
                    IN  AuthorityParses(SubSeq(rest, b, e - 1), TRUE)
               ELSE IF Len(rest) >= 2 /\ rest[1] = "/" /\ rest[2] = "/"
               THEN LET e == SkipUntil(rest, 3, {"/", "#"})
                    IN  AuthorityParses(SubSeq(rest, 3, e - 1), FALSE)
               ELSE TRUE                          \* path or opaque path

----------------------------------------------------------------------------
(* JavaScript values of a JSON body's fields *)

Undefined == [t |-> "undefined", s |-> <<>>, n |-> 0]
Str(s)    == [t |-> "string", s |-> s, n |-> 0]
Num(n)    == [t |-> "number", s |-> <<>>, n |-> n]
Arr(s)    == [t |-> "array", s |-> s, n |-> 0]     \* the array [s]
Null      == [t |-> "null", s |-> <<>>, n |-> 0]

\* !v
Falsy(v) == \/ v.t \in {"undefined", "null"}
            \/ v.t = "string" /\ Len(v.s) = 0
            \/ v.t = "number" /\ v.n = 0

\* String(v), for a number of one digit
StringOf(v) ==
    CASE v.t = "string" -> v.s
      [] v.t = "array"  -> v.s
      [] v.t = "number" -> << CHOOSE c \in Digits : DigitVal(c) = v.n >>
      [] OTHER          -> <<"?">>

\* A URL check that lets everything through.
isValidUrlAll(v) == v = v

isValidUrl(v) == URLParses(StringOf(v))

----------------------------------------------------------------------------
(* createComment's validation, lines 112-148 *)

NameMax    == 100
ContentMax == 1000

pageUrlErrors(v) ==
    IF Falsy(v) THEN <<"page_url is required">>
    ELSE IF ~isValidUrl(v) THEN <<"Invalid page_url format">>
    ELSE <<>>

\* The length of author_name measured before trimming.
authorNameErrorsRaw(v) ==
    IF Falsy(v) THEN <<"author_name is required">>
    ELSE IF v.t # "string" \/ Len(trim(v.s)) = 0
         THEN <<"author_name cannot be empty">>
    ELSE IF Len(v.s) > NameMax
         THEN <<"author_name must be 100 characters or less">>
    ELSE <<>>

authorNameErrors(v) ==
    IF Falsy(v) THEN <<"author_name is required">>
    ELSE IF v.t # "string" \/ Len(trim(v.s)) = 0
         THEN <<"author_name cannot be empty">>
    ELSE IF Len(trim(v.s)) > NameMax
         THEN <<"author_name must be 100 characters or less">>
    ELSE <<>>

\* A check of comment_content without the upper limit.
commentContentErrorsNoLimit(v) ==
    IF Falsy(v) THEN <<"comment_content is required">>
    ELSE IF v.t # "string" \/ Len(trim(v.s)) = 0
         THEN <<"comment_content cannot be empty">>
    ELSE <<>>

\* The length of comment_content measured on the escaped form.
commentContentErrorsEscaped(v) ==
    IF Falsy(v) THEN <<"comment_content is required">>
    ELSE IF v.t # "string" \/ Len(trim(v.s)) = 0
         THEN <<"comment_content cannot be empty">>
    ELSE IF Len(sanitizeInput(v.s)) > ContentMax
         THEN <<"comment_content must be 1000 characters or less">>
    ELSE <<>>

commentContentErrors(v) ==
    IF Falsy(v) THEN <<"comment_content is required">>
    ELSE IF v.t # "string" \/ Len(trim(v.s)) = 0
         THEN <<"comment_content cannot be empty">>
    ELSE IF Len(trim(v.s)) > ContentMax
         THEN <<"comment_content must be 1000 characters or less">>
    ELSE <<>>

\* The validator stops at the first field in error.
validationErrorsFirst(b) ==
    IF pageUrlErrors(b.page_url) # <<>> THEN pageUrlErrors(b.page_url)
    ELSE IF authorNameErrors(b.author_name) # <<>>
         THEN authorNameErrors(b.author_name)
    ELSE commentContentErrors(b.comment_content)

\* errors, after the three groups of checks
validationErrors(b) ==
    pageUrlErrors(b.page_url) \o authorNameErrors(b.author_name)
        \o commentContentErrors(b.comment_content)

\* Array.prototype.join
RECURSIVE join(_, _)
join(msgs, sep) ==
    IF Len(msgs) = 0 THEN ""
    ELSE IF Len(msgs) = 1 THEN msgs[1]
    ELSE msgs[1] \o sep \o join(Tail(msgs), sep)

----------------------------------------------------------------------------
(* The admin secret, lines 205, 293 and 378 *)

DefaultSecret ==
    Str(<<"a", "d", "m", "i", "n", "-", "s", "e", "c", "r", "e", "t", "-",
          "k", "e", "y">>)

\* The bindings of the worker: the variable ADMIN_SECRET_KEY, the value under
\* the key ADMIN_SECRET_KEY of the KV namespace SECRETS (README, lines 96-97
\* and 107-110; undefined when the namespace is not bound or holds no such
\* key), and the database DB.  Of the database, whose content is the table
\* comments, env.DB records the order by id in which the engine returns rows
\* of equal created_at to each of the two listing statements: SQL leaves
\* that order open and the engine's plan settles it.
Env(key, kv, db) == [ADMIN_SECRET_KEY |-> key, SECRETS |-> kv, DB |-> db]

\* env.ADMIN_SECRET_KEY || 'admin-secret-key'
adminSecret(e) ==
    IF Falsy(e.ADMIN_SECRET_KEY) THEN DefaultSecret ELSE e.ADMIN_SECRET_KEY

\* An authorization check that lets a missing secret through.
authorizedOrMissing(secret, e) == Falsy(secret) \/ secret = adminSecret(e)

\* !( !secret || secret !== adminSecret )
authorized(secret, e) == ~(Falsy(secret) \/ secret # adminSecret(e))

----------------------------------------------------------------------------
(* The table comments (src/unnamed/part_000) and the statements on it *)

\* A row inserted with a status that awaits moderation.
RowPending(id, pageUrl, name, content, at) ==
    [id |-> id, page_url |-> pageUrl, author_name |-> name,
     comment_content |-> content, created_at |-> at, status |-> "pending"]

\* INSERT INTO comments (page_url, author_name, comment_content, status)
\* VALUES (?, ?, ?, 'approved'), with the id and the created_at of the table
Row(id, pageUrl, name, content, at) ==
    [id |-> id, page_url |-> pageUrl, author_name |-> name,
     comment_content |-> content, created_at |-> at, status |-> "approved"]

\* SELECT id, author_name, comment_content, created_at, page_url
Public(row) ==
    [id |-> row.id, author_name |-> row.author_name,
     comment_content |-> row.comment_content, created_at |-> row.created_at,
     page_url |-> row.page_url]

\* ORDER BY created_at in the direction given: the rows S by created_at, rows
\* of equal created_at in the order by id the engine's plan gives (ties).
Orders(S, direction, ties) ==
    { q \in [1..Cardinality(S) -> S] :
        /\ \A i, j \in 1..Cardinality(S) : i # j => q[i] # q[j]
        /\ \A i, j \in 1..Cardinality(S) :
              i < j => IF q[i].created_at = q[j].created_at
                       THEN IF ties = "ASC" THEN q[i].id < q[j].id
                                            ELSE q[i].id > q[j].id
                       ELSE IF direction = "ASC"
                       THEN q[i].created_at < q[j].created_at
                       ELSE q[i].created_at > q[j].created_at }

\* A listing of a page that leaves out the test of status.
selectByPageAnyStatus(rows, pageUrl, db) ==
    { [i \in DOMAIN q |-> Public(q[i])] :
        q \in Orders({c \in rows : c.page_url = pageUrl}, "ASC", db.page) }

\* SELECT ... WHERE page_url = ? AND status = 'approved' ORDER BY created_at ASC
selectByPage(rows, pageUrl, db) ==
    { [i \in DOMAIN q |-> Public(q[i])] :
        q \in Orders({c \in rows : c.page_url = pageUrl /\ c.status = "approved"},
                     "ASC", db.page) }

\* A listing of all rows that keeps the public listing's test of status.
selectAllApproved(rows, db) ==
    Orders({c \in rows : c.status = "approved"}, "DESC", db.all)

\* SELECT id, author_name, comment_content, created_at, page_url, status
\* FROM comments ORDER BY created_at DESC
selectAll(rows, db) == Orders(rows, "DESC", db.all)

\* An id taken from the rows the table holds now: the largest id and one,
\* what INTEGER PRIMARY KEY gives without AUTOINCREMENT.
nextIdOfRows(rows, s) ==
    IF rows = {} THEN 1
    ELSE (CHOOSE m \in {c.id : c \in rows} : \A c \in rows : c.id <= m) + 1

\* id INTEGER PRIMARY KEY AUTOINCREMENT: one more than the largest id the
\* table ever held (s, which the engine keeps in sqlite_sequence)
nextId(rows, s) == s + 1

\* SELECT ... WHERE id = ?, .first(): the row, or null
NullRow == [id |-> 0]
selectById(rows, id) ==
    IF \E c \in rows : c.id = id
    THEN Public(CHOOSE c \in rows : c.id = id)
    ELSE NullRow

\* SELECT id FROM comments WHERE id = ?, .first(), as a truth value
existsById(rows, id) == \E c \in rows : c.id = id

\* A DELETE that removes nothing.
deleteByIdNothing(rows, id) == rows

\* DELETE FROM comments WHERE id = ?
deleteById(rows, id) == {c \in rows : c.id # id}

----------------------------------------------------------------------------
(* Requests and responses *)

Path(dir, tail) == [dir |-> dir, tail |-> tail]

NoBody == [kind |-> "none", page_url |-> Undefined, author_name |-> Undefined,
           comment_content |-> Undefined]

\* A JSON object with the three fields (undefined: the field is absent)
Body(pageUrl, name, content) ==
    [kind |-> "object", page_url |-> pageUrl, author_name |-> name,
     comment_content |-> content]

\* A body request.json() rejects, and the JSON text null
MalformedBody == [NoBody EXCEPT !.kind = "malformed"]
NullBody      == [NoBody EXCEPT !.kind = "null"]

Request(method, path, secret, pageUrl, body) ==
    [method |-> method, path |-> path, secret |-> secret, page_url |-> pageUrl,
     body |-> body]

NoReq == Request("", Path("", <<>>), Null, Null, NoBody)

Json(status, body) ==
    [status |-> status, type |-> "application/json", cors |-> TRUE, body |-> body]

Text(status, cors, text) ==
    [status |-> status, type |-> "text/plain", cors |-> cors, body |-> text]

Html(page) == [status |-> 200, type |-> "text/html", cors |-> TRUE, body |-> page]

\* CORS headers that leave DELETE out of the methods.
corsHeadersNoDelete ==
    ("Access-Control-Allow-Origin" :> "*")
    @@ ("Access-Control-Allow-Methods" :> "GET, POST, OPTIONS")
    @@ ("Access-Control-Allow-Headers" :> "Content-Type")

\* corsHeaders(), lines 5-11
corsHeaders ==
    ("Access-Control-Allow-Origin" :> "*")
    @@ ("Access-Control-Allow-Methods" :> "GET, POST, DELETE, OPTIONS")
    @@ ("Access-Control-Allow-Headers" :> "Content-Type")

\* The headers of a response: { 'Content-Type': type, ...corsHeaders() } where
\* the response spreads corsHeaders() (cors), the content type alone where not
Headers(resp) ==
    (IF resp.type = "" THEN <<>> ELSE ("Content-Type" :> resp.type))
    @@ (IF resp.cors THEN corsHeaders ELSE <<>>)

NoResp == [status |-> 0, type |-> "", cors |-> FALSE, body |-> ""]

\* The handler a request is dispatched to, lines 344-406
Route(rq) ==
    IF rq.method = "OPTIONS" THEN "handleOptions"
    ELSE IF rq.path = Path("/api/comments", <<>>)
         THEN (CASE rq.method = "GET"  -> "getComments"
                 [] rq.method = "POST" -> "createComment"
                 [] OTHER              -> "methodNotAllowed")
    ELSE IF rq.path = Path("/api/comments/", <<"a", "l", "l">>) /\ rq.method = "GET"
         THEN "getAllComments"
    ELSE IF /\ rq.path.dir = "/api/comments/"
            /\ Len(rq.path.tail) > 0
            /\ \A i \in 1..Len(rq.path.tail) : rq.path.tail[i] \in Digits
            /\ rq.method = "DELETE"
         THEN "deleteComment"
    ELSE IF rq.path = Path("/admin", <<>>) /\ rq.method = "GET" THEN "admin"
    ELSE IF rq.path = Path("/comment-widget", <<>>) /\ rq.method = "GET"
         THEN "commentWidget"
    ELSE "default"

\* The store statements a request issued, with their outcome
Op(stmt, ok) == [stmt |-> stmt, ok |-> ok]

NoLoc == [page_url |-> <<>>, author_name |-> <<>>, comment_content |-> <<>>,
          id |-> 0]

\* Slot r takes the next request: the first free slot, while requests remain.
Idle(r) ==
    /\ pc[r] = "idle"
    /\ \A q \in 1..(r - 1) : pc[q] # "idle"
    /\ nreq < MaxRequests

\* The request rq of slot r is answered and the slot is free again.
Respond(r, rq, response, log, l) ==
    /\ last' = [req |-> rq, resp |-> response, ops |-> log]
    /\ pc'  = [pc EXCEPT ![r] = "idle"]
    /\ req' = [req EXCEPT ![r] = NoReq]
    /\ loc' = [loc EXCEPT ![r] = NoLoc]
    /\ ops' = [ops EXCEPT ![r] = <<>>]

\* The handler of rq awaits a store statement.
Await(r, rq, at, l, log) ==
    /\ pc'  = [pc EXCEPT ![r] = at]
    /\ req' = [req EXCEPT ![r] = rq]
    /\ loc' = [loc EXCEPT ![r] = l]
    /\ ops' = [ops EXCEPT ![r] = log]
    /\ UNCHANGED last

\* The locals of a handler that starts now
Fresh == NoLoc

store == <<comments, seq, now>>
hist  == <<posted, deleted>>
pure  == <<input, output>>

----------------------------------------------------------------------------
(* The handlers.  A handler runs from one await on the store to the next.  *)

\* lines 348-350 and 14-18
handleOptions(r, rq) ==
    /\ Idle(r) /\ Route(rq) = "handleOptions"
    /\ Respond(r, rq, [status |-> 200, type |-> "", cors |-> TRUE, body |-> ""],
               <<>>, Fresh)
    /\ nreq' = nreq + 1
    /\ UNCHANGED <<store, env, hist, pure>>

\* line 360
methodNotAllowed(r, rq) ==
    /\ Idle(r) /\ Route(rq) = "methodNotAllowed"
    /\ Respond(r, rq, Text(405, FALSE, "Method not allowed"), <<>>, Fresh)
    /\ nreq' = nreq + 1
    /\ UNCHANGED <<store, env, hist, pure>>

\* getComments up to its SELECT, lines 41-71
getCommentsBegin(r, rq) ==
    /\ Idle(r) /\ Route(rq) = "getComments"
    /\ IF Falsy(rq.page_url)
       THEN Respond(r, rq, Json(400, [error |-> "page_url parameter is required"]),
                    <<>>, Fresh)
       ELSE IF ~isValidUrl(rq.page_url)
       THEN Respond(r, rq, Json(400, [error |-> "Invalid page_url format"]),
                    <<>>, Fresh)
       ELSE Await(r, rq, "getComments:select", Fresh, <<>>)
    /\ nreq' = nreq + 1
    /\ UNCHANGED <<store, env, hist, pure>>

\* A getComments that removes from the table the rows it has served.
getCommentsSelectConsuming(r) ==
    /\ pc[r] = "getComments:select"
    /\ \/ /\ \E result \in selectByPage(comments, req[r].page_url.s, env.DB) :
                Respond(r, req[r],
                        Json(200, [comments |-> result, count |-> Len(result)]),
                        ops[r] \o <<Op("SELECT page", TRUE)>>, loc[r])
          /\ comments' = {c \in comments : c.page_url # req[r].page_url.s}
          /\ UNCHANGED <<seq, now>>
       \/ /\ Respond(r, req[r], Json(500, [error |-> "Failed to retrieve comments"]),
                     ops[r] \o <<Op("SELECT page", FALSE)>>, loc[r])
          /\ UNCHANGED store
    /\ UNCHANGED <<nreq, env, hist, pure>>

\* getComments from its SELECT on, lines 72-103
getCommentsSelect(r) ==
    /\ pc[r] = "getComments:select"
    /\ \/ \E result \in selectByPage(comments, req[r].page_url.s, env.DB) :
            Respond(r, req[r],
                    Json(200, [comments |-> result, count |-> Len(result)]),
                    ops[r] \o <<Op("SELECT page", TRUE)>>, loc[r])
       \/ Respond(r, req[r], Json(500, [error |-> "Failed to retrieve comments"]),
                  ops[r] \o <<Op("SELECT page", FALSE)>>, loc[r])
    /\ UNCHANGED <<nreq, store, env, hist, pure>>

\* A createComment that parses the body outside its try block: the exception
\* of request.json() escapes and the runtime answers with its error page.
createCommentBeginUncaught(r, rq) ==
    /\ Idle(r) /\ Route(rq) = "createComment"
    /\ LET body   == rq.body
           errors == validationErrors(body)
       IN  IF body.kind # "object"
           THEN Respond(r, rq, Text(500, FALSE, "Worker threw exception"),
                        <<>>, Fresh)
           ELSE IF Len(errors) > 0
           THEN Respond(r, rq, Json(400, [error |-> join(errors, "; ")]),
                        <<>>, Fresh)
           ELSE IF body.page_url.t # "string"
           THEN Respond(r, rq, Json(500, [error |-> "Failed to create comment"]),
                        <<>>, Fresh)
           ELSE Await(r, rq, "createComment:insert",
                      [Fresh EXCEPT
                         !.page_url = sanitizeInput(trim(body.page_url.s)),
                         !.author_name = sanitizeInput(trim(body.author_name.s)),
                         !.comment_content =
                             sanitizeInput(trim(body.comment_content.s))],
                      <<>>)
    /\ nreq' = nreq + 1
    /\ UNCHANGED <<store, env, hist, pure>>

\* createComment up to its INSERT, lines 107-155
createCommentBegin(r, rq) ==
    /\ Idle(r) /\ Route(rq) = "createComment"
    /\ LET body   == rq.body
           errors == validationErrors(body)
       IN  IF body.kind # "object"         \* request.json() or the destructuring throws
           THEN Respond(r, rq, Json(500, [error |-> "Failed to create comment"]),
                        <<>>, Fresh)
           ELSE IF Len(errors) > 0
           THEN Respond(r, rq, Json(400, [error |-> join(errors, "; ")]),
                        <<>>, Fresh)
           ELSE IF body.page_url.t # "string"       \* page_url.trim is not a function
           THEN Respond(r, rq, Json(500, [error |-> "Failed to create comment"]),
                        <<>>, Fresh)
           ELSE Await(r, rq, "createComment:insert",
                      [Fresh EXCEPT
                         !.page_url = sanitizeInput(trim(body.page_url.s)),
                         !.author_name = sanitizeInput(trim(body.author_name.s)),
                         !.comment_content =
                             sanitizeInput(trim(body.comment_content.s))],
                      <<>>)
    /\ nreq' = nreq + 1
    /\ UNCHANGED <<store, env, hist, pure>>

\* createComment's INSERT, lines 156-163
createCommentInsert(r) ==
    /\ pc[r] = "createComment:insert"
    /\ \/ /\ seq < MaxId
          /\ LET id == nextId(comments, seq)
             IN  /\ comments' = comments \cup
                        { Row(id, loc[r].page_url, loc[r].author_name,
                              loc[r].comment_content, now) }
                 /\ seq' = IF id > seq THEN id ELSE seq
                 /\ Await(r, req[r], "createComment:select",
                          [loc[r] EXCEPT !.id = id],      \* meta.last_row_id
                          ops[r] \o <<Op("INSERT", TRUE)>>)
          /\ UNCHANGED now
       \/ /\ Respond(r, req[r], Json(500, [error |-> "Failed to create comment"]),
                     ops[r] \o <<Op("INSERT", FALSE)>>, loc[r])
          /\ UNCHANGED store
    /\ UNCHANGED <<nreq, env, hist, pure>>

\* createComment from its SELECT on, lines 165-198
createCommentSelect(r) ==
    /\ pc[r] = "createComment:select"
    /\ \/ /\ Respond(r, req[r],
                     Json(201, [success |-> TRUE,
                                comment |-> selectById(comments, loc[r].id)]),
                     ops[r] \o <<Op("SELECT id", TRUE)>>, loc[r])
          /\ posted' = IF loc[r].id \in deleted THEN posted
                       ELSE posted \cup {[id |-> loc[r].id, body |-> req[r].body]}
       \/ /\ Respond(r, req[r], Json(500, [error |-> "Failed to create comment"]),
                     ops[r] \o <<Op("SELECT id", FALSE)>>, loc[r])
          /\ UNCHANGED posted
    /\ UNCHANGED <<nreq, store, env, deleted, pure>>

\* The id a DELETE statement is bound to
commentId(rq) == DecVal(rq.path.tail, 1, 0)

\* A deleteComment that looks the comment up before it checks the secret.
deleteCommentBeginExistsFirst(r, rq) ==
    /\ Idle(r) /\ Route(rq) = "deleteComment"
    /\ IF ~existsById(comments, commentId(rq))
       THEN Respond(r, rq, Json(404, [error |-> "Comment not found"]),
                    <<Op("SELECT id", TRUE)>>, Fresh)
       ELSE IF ~authorized(rq.secret, env)
       THEN Respond(r, rq, Json(401, [error |-> "Unauthorized"]),
                    <<Op("SELECT id", TRUE)>>, Fresh)
       ELSE Await(r, rq, "deleteComment:delete", Fresh, <<Op("SELECT id", TRUE)>>)
    /\ nreq' = nreq + 1
    /\ UNCHANGED <<store, env, hist, pure>>

\* deleteComment up to its SELECT, lines 202-233
deleteCommentBegin(r, rq) ==
    /\ Idle(r) /\ Route(rq) = "deleteComment"
    /\ IF ~authorized(rq.secret, env)
       THEN Respond(r, rq, Json(401, [error |-> "Unauthorized"]), <<>>, Fresh)
       ELSE IF \/ Len(rq.path.tail) = 0
               \/ \E i \in 1..Len(rq.path.tail) : rq.path.tail[i] \notin Digits
       THEN Respond(r, rq, Json(400, [error |-> "Invalid comment ID"]), <<>>, Fresh)
       ELSE Await(r, rq, "deleteComment:exists", Fresh, <<>>)
    /\ nreq' = nreq + 1
    /\ UNCHANGED <<store, env, hist, pure>>

\* deleteComment's existence check, lines 234-250
deleteCommentExists(r) ==
    /\ pc[r] = "deleteComment:exists"
    /\ \/ IF existsById(comments, commentId(req[r]))
          THEN Await(r, req[r], "deleteComment:delete", loc[r],
                     ops[r] \o <<Op("SELECT id", TRUE)>>)
          ELSE Respond(r, req[r], Json(404, [error |-> "Comment not found"]),
                       ops[r] \o <<Op("SELECT id", TRUE)>>, loc[r])
       \/ Respond(r, req[r], Json(500, [error |-> "Failed to delete comment"]),
                  ops[r] \o <<Op("SELECT id", FALSE)>>, loc[r])
    /\ UNCHANGED <<nreq, store, env, hist, pure>>

\* deleteComment from its DELETE on, lines 252-286
deleteCommentDelete(r) ==
    /\ pc[r] = "deleteComment:delete"
    /\ \/ /\ comments' = deleteById(comments, commentId(req[r]))
          /\ Respond(r, req[r],
                     Json(200, [success |-> TRUE,
                                message |-> "Comment deleted successfully"]),
                     ops[r] \o <<Op("DELETE", TRUE)>>, loc[r])
          /\ deleted' = deleted \cup {commentId(req[r])}
          /\ posted' = {g \in posted : g.id # commentId(req[r])}
       \/ /\ Respond(r, req[r], Json(500, [error |-> "Failed to delete comment"]),
                     ops[r] \o <<Op("DELETE", FALSE)>>, loc[r])
          /\ UNCHANGED <<comments, hist>>
    /\ UNCHANGED <<nreq, seq, now, env, pure>>

\* getAllComments up to its SELECT, lines 290-308
getAllCommentsBegin(r, rq) ==
    /\ Idle(r) /\ Route(rq) = "getAllComments"
    /\ IF ~authorized(rq.secret, env)
       THEN Respond(r, rq, Json(401, [error |-> "Unauthorized"]), <<>>, Fresh)
       ELSE Await(r, rq, "getAllComments:select", Fresh, <<>>)
    /\ nreq' = nreq + 1
    /\ UNCHANGED <<store, env, hist, pure>>

\* getAllComments from its SELECT on, lines 309-339
getAllCommentsSelect(r) ==
    /\ pc[r] = "getAllComments:select"
    /\ \/ \E result \in selectAll(comments, env.DB) :
            Respond(r, req[r],
                    Json(200, [comments |-> result, count |-> Len(result)]),
                    ops[r] \o <<Op("SELECT all", TRUE)>>, loc[r])
       \/ Respond(r, req[r], Json(500, [error |-> "Failed to retrieve comments"]),
                  ops[r] \o <<Op("SELECT all", FALSE)>>, loc[r])
    /\ UNCHANGED <<nreq, store, env, hist, pure>>

\* GET /admin, lines 376-391
adminPage(r, rq) ==
    /\ Idle(r) /\ Route(rq) = "admin"
    /\ IF ~authorized(rq.secret, env)
       THEN Respond(r, rq, Text(401, FALSE, "Unauthorized"), <<>>, Fresh)
       ELSE Respond(r, rq, Html("getAdminHTML"), <<>>, Fresh)
    /\ nreq' = nreq + 1
    /\ UNCHANGED <<store, env, hist, pure>>

\* GET /comment-widget, lines 394-401
commentWidget(r, rq) ==
    /\ Idle(r) /\ Route(rq) = "commentWidget"
    /\ Respond(r, rq, Html("getCommentWidgetHTML"), <<>>, Fresh)
    /\ nreq' = nreq + 1
    /\ UNCHANGED <<store, env, hist, pure>>

\* lines 404-406
defaultResponse(r, rq) ==
    /\ Idle(r) /\ Route(rq) = "default"
    /\ Respond(r, rq, Text(200, TRUE, "Blog Comment System API"), <<>>, Fresh)
    /\ nreq' = nreq + 1
    /\ UNCHANGED <<store, env, hist, pure>>

\* CURRENT_TIMESTAMP advances.
Tick ==
    /\ now < MaxTime
    /\ now' = now + 1
    /\ UNCHANGED <<comments, seq, env, pc, req, loc, ops, last, nreq, hist, pure>>

----------------------------------------------------------------------------
(* The requests the clients send *)

Http == <<"h", "t", "t", "p", ":", "/", "/">>

UrlPlain    == Http \o <<"a">>                       \* http://a
UrlQuote    == Http \o <<"a", "/", "'">>             \* http://a/'
UrlSpaces   == <<" ">> \o Http \o <<"a", " ">>       \* http://a between spaces
UrlNoHost   == <<"a", ":", "b">>                     \* a:b
UrlNoScheme == <<"/", "/", "a", "/", "b">>           \* //a/b
UrlHostless == Http                                  \* http://
NotAUrl     == <<"n", "o", "t", " ", "a", " ", "u", "r", "l">>

TopSecret == Str(<<"t", "o", "p">>)

EnvSecrets == {Undefined, TopSecret}

\* The orders of rows of equal created_at: one for each listing statement.
TieOrders == [page : {"ASC", "DESC"}, all : {"ASC", "DESC"}]

\* The order the engine gives with the two indexes of the table: index order
\* for the page's rows, idx_comments_created_at read backwards for all rows.
IndexOrder == [page |-> "ASC", all |-> "DESC"]

\* The deployments with a variable among K, a KV value among V, an order among D
Envs(K, V, D) == {Env(k, v, d) : k \in K, v \in V, d \in D}
Secrets    == {Null, Str(<<>>), DefaultSecret, TopSecret}

Slots == 1..MaxReq

\* The ids DELETE requests name: those the table can assign, and one it cannot.
IdTails == { <<"1">>, <<"2">>, <<"9">> }

AdminRequests ==
    {Request("DELETE", Path("/api/comments/", t), k, Null, NoBody) :
        t \in IdTails, k \in Secrets}
    \cup {Request("GET", Path("/api/comments/", <<"a", "l", "l">>), k, Null, NoBody) :
            k \in Secrets}
    \cup {Request("GET", Path("/admin", <<>>), k, Null, NoBody) : k \in Secrets}

OtherRequests ==
    { Request("OPTIONS", Path("/api/comments", <<>>), Null, Null, NoBody),
      Request("PUT", Path("/api/comments", <<>>), Null, Null, NoBody),
      Request("DELETE", Path("/api/comments/", <<"a">>), TopSecret, Null, NoBody),
      Request("GET", Path("/comment-widget", <<>>), Null, Str(UrlPlain), NoBody),
      Request("GET", Path("/", <<>>), Null, Null, NoBody) }

Get(pageUrl)  == Request("GET", Path("/api/comments", <<>>), Null, pageUrl, NoBody)
Post(body)    == Request("POST", Path("/api/comments", <<>>), Null, Null, body)

\* The requests of the concurrent system: the handlers that await the store.
Requests ==
    {Get(Str(u)) : u \in {UrlPlain, UrlQuote}}
    \cup {Post(Body(Str(u), Str(<<"<", "&">>), Str(<<"b">>))) :
            u \in {UrlPlain, UrlQuote}}
    \cup {Post(Body(Str(NotAUrl), Str(<<"a">>), Str(<<"b">>)))}
    \cup {Request("DELETE", Path("/api/comments/", t), k, Null, NoBody) :
            t \in {<<"1">>, <<"9">>}, k \in {DefaultSecret, TopSecret}}
    \cup {Request("GET", Path("/api/comments/", <<"a", "l", "l">>), k, Null, NoBody) :
            k \in {DefaultSecret, TopSecret}}

----------------------------------------------------------------------------
(* The system: MaxReq requests at a time *)

NoLast == [req |-> NoReq, resp |-> NoResp, ops |-> <<>>]

\* The state of a fresh deployment whose bindings are one of E.
Deployed(E) ==
    /\ comments = {} /\ seq = 0 /\ now = 0
    /\ env \in E
    /\ pc  = [r \in Slots |-> "idle"]
    /\ req = [r \in Slots |-> NoReq]
    /\ loc = [r \in Slots |-> NoLoc]
    /\ ops = [r \in Slots |-> <<>>]
    /\ last = NoLast /\ nreq = 0
    /\ posted = {} /\ deleted = {}

NoOutput == [done |-> FALSE, value |-> <<>>]

Init == Deployed(Envs({TopSecret}, {Undefined}, {IndexOrder})) /\ input = <<>> /\ output = NoOutput

Next ==
    \/ \E r \in Slots, rq \in Requests : getCommentsBegin(r, rq)
    \/ \E r \in Slots : getCommentsSelect(r)
    \/ \E r \in Slots, rq \in Requests : createCommentBegin(r, rq)
    \/ \E r \in Slots : createCommentInsert(r)
    \/ \E r \in Slots : createCommentSelect(r)
    \/ \E r \in Slots, rq \in Requests : deleteCommentBegin(r, rq)
    \/ \E r \in Slots : deleteCommentExists(r)
    \/ \E r \in Slots : deleteCommentDelete(r)
    \/ \E r \in Slots, rq \in Requests : getAllCommentsBegin(r, rq)
    \/ \E r \in Slots : getAllCommentsSelect(r)

Spec == Init /\ [][Next]_vars

----------------------------------------------------------------------------
(* The router: one request at a time, on every route, with either static   *)
(* configuration, while the clock advances                                 *)

RouterRequests ==
    AdminRequests \cup OtherRequests
    \cup {Get(u) : u \in {Null, Str(UrlPlain), Str(NotAUrl)}}
    \cup {Post(b) : b \in {Body(Str(UrlPlain), Str(<<"<", "&">>), Str(<<"b">>)),
                           Body(Str(UrlPlain), Undefined, Str(<<"b">>)),
                           MalformedBody, NullBody}}

InitRouter == Deployed(Envs(EnvSecrets, {Undefined}, {IndexOrder})) /\ input = <<>> /\ output = NoOutput

NextRouter ==
    \/ \E rq \in RouterRequests : handleOptions(1, rq)
    \/ \E rq \in RouterRequests : methodNotAllowed(1, rq)
    \/ \E rq \in RouterRequests : getCommentsBegin(1, rq)
    \/ getCommentsSelect(1)
    \/ \E rq \in RouterRequests : createCommentBegin(1, rq)
    \/ createCommentInsert(1)
    \/ createCommentSelect(1)
    \/ \E rq \in RouterRequests : deleteCommentBegin(1, rq)
    \/ deleteCommentExists(1)
    \/ deleteCommentDelete(1)
    \/ \E rq \in RouterRequests : getAllCommentsBegin(1, rq)
    \/ getAllCommentsSelect(1)
    \/ \E rq \in RouterRequests : adminPage(1, rq)
    \/ \E rq \in RouterRequests : commentWidget(1, rq)
    \/ \E rq \in RouterRequests : defaultResponse(1, rq)
    \/ Tick

SpecRouter == InitRouter /\ [][NextRouter]_vars

----------------------------------------------------------------------------
(* The validator: one request at a time on /api/comments, with fields at   *)
(* and around every limit                                                  *)

ValidUrl     == Str(UrlPlain)
ValidName    == Str(<<"a">>)
ValidContent == Str(<<"b">>)

SomeUrls ==
    { Undefined, Null, Str(<<>>), Num(7), Arr(UrlPlain), Str(UrlPlain),
      Str(UrlQuote), Str(UrlSpaces), Str(UrlNoHost), Str(UrlNoScheme),
      Str(UrlHostless), Str(NotAUrl) }

SomeNames ==
    { Undefined, Str(<<>>), Str(<<" ", " ">>), Num(0), Num(7), Arr(<<"a">>),
      Str(<<"a">>), Str(<<" ", "a", "&", "<", " ">>),
      Str(Rep("a", NameMax)), Str(Rep("a", NameMax + 1)),
      Str(Rep("'", NameMax)),
      Str(<<" ">> \o Rep("a", NameMax) \o <<" ">>),
      Str(<<" ">> \o Rep("a", NameMax + 1)) }

SomeContents ==
    { Undefined, Str(<<>>), Str(<<" ">>), Num(7), Arr(<<"b">>),
      Str(<<"b">>), Str(<<"<", "b", ">">>),
      Str(Rep("b", ContentMax)), Str(Rep("b", ContentMax + 1)),
      Str(Rep("<", ContentMax)),
      Str(<<" ">> \o Rep("b", ContentMax) \o <<" ">>) }

\* One field varies, or each field is valid, absent or ill-formed.
ValidatorBodies ==
    {Body(u, ValidName, ValidContent) : u \in SomeUrls}
    \cup {Body(ValidUrl, n, ValidContent) : n \in SomeNames}
    \cup {Body(ValidUrl, ValidName, c) : c \in SomeContents}
    \cup {Body(u, n, c) : u \in {ValidUrl, Undefined, Str(NotAUrl)},
                          n \in {ValidName, Undefined, Str(Rep("a", NameMax + 1))},
                          c \in {ValidContent, Undefined, Str(<<" ">>)}}

ValidatorRequests ==
    {Post(b) : b \in ValidatorBodies}
    \cup {Get(u) : u \in {v \in SomeUrls : v.t \in {"null", "string"}}}

InitValidator == Deployed(Envs({TopSecret}, {Undefined}, {IndexOrder})) /\ input = <<>> /\ output = NoOutput

NextValidator ==
    \/ \E rq \in ValidatorRequests : nreq < MaxValidated /\ getCommentsBegin(1, rq)
    \/ getCommentsSelect(1)
    \/ \E rq \in ValidatorRequests : nreq < MaxValidated /\ createCommentBegin(1, rq)
    \/ createCommentInsert(1)
    \/ createCommentSelect(1)

SpecValidator == InitValidator /\ [][NextValidator]_vars

----------------------------------------------------------------------------
(* The listings: one request at a time on two pages, while the clock       *)
(* advances, with every order of rows of equal created_at, on a table that *)
(* is empty at first or holds a comment an operator has put on hold        *)

UrlOther == Http \o <<"b">>                         \* http://b

\* status is a free text column: a row whose status was set in the database
Held == [Row(1, UrlPlain, <<"a">>, <<"b">>, 0) EXCEPT !.status = "pending"]

ListingRequests ==
    {Get(Str(u)) : u \in {UrlPlain, UrlOther}}
    \cup {Post(Body(Str(u), ValidName, ValidContent)) : u \in {UrlPlain, UrlOther}}
    \cup {Request("DELETE", Path("/api/comments/", <<"1">>), TopSecret, Null,
                  NoBody)}
    \cup {Request("GET", Path("/api/comments/", <<"a", "l", "l">>), TopSecret,
                  Null, NoBody)}

InitListing ==
    /\ comments \in {{}, {Held}}
    /\ seq = Cardinality(comments) /\ now = 0
    /\ env \in Envs({TopSecret}, {Undefined}, TieOrders)
    /\ pc  = [r \in Slots |-> "idle"]
    /\ req = [r \in Slots |-> NoReq]
    /\ loc = [r \in Slots |-> NoLoc]
    /\ ops = [r \in Slots |-> <<>>]
    /\ last = NoLast /\ nreq = 0
    /\ posted = {} /\ deleted = {}
    /\ input = <<>> /\ output = NoOutput

NextListing ==
    \/ \E rq \in ListingRequests : getCommentsBegin(1, rq)
    \/ getCommentsSelect(1)
    \/ \E rq \in ListingRequests : createCommentBegin(1, rq)
    \/ createCommentInsert(1)
    \/ createCommentSelect(1)
    \/ \E rq \in ListingRequests : deleteCommentBegin(1, rq)
    \/ deleteCommentExists(1)
    \/ deleteCommentDelete(1)
    \/ \E rq \in ListingRequests : getAllCommentsBegin(1, rq)
    \/ getAllCommentsSelect(1)
    \/ Tick

SpecListing == InitListing /\ [][NextListing]_vars

----------------------------------------------------------------------------
(* The admin secret: one request at a time on the admin-gated routes and   *)
(* on /setup, in deployments with and without the variable ADMIN_SECRET_KEY *)
(* and with and without a secret in the KV namespace                       *)

KvSecret    == Str(<<"k", "v">>)
NewSecret   == Str(<<"n", "e", "w", "-", "p", "a", "s", "s">>)     \* 8 characters
ShortSecret == Str(<<"n", "e", "w", "-", "p", "a", "s">>)          \* 7 characters

\* The JSON body of POST /setup (README, lines 47-53)
SetupBody(currentSecret, newSecret) ==
    [kind |-> "object", currentSecret |-> currentSecret, newSecret |-> newSecret]

Setup(body) == Request("POST", Path("/setup", <<>>), Null, Null, body)

SecretRequests ==
    {Request("GET", Path("/api/comments/", <<"a", "l", "l">>), k, Null, NoBody) :
        k \in {Null, DefaultSecret, TopSecret, KvSecret, NewSecret}}
    \cup {Request("GET", Path("/admin", <<>>), k, Null, NoBody) :
            k \in {Null, DefaultSecret, TopSecret, KvSecret, NewSecret}}
    \cup {Request("DELETE", Path("/api/comments/", <<"1">>), k, Null, NoBody) :
            k \in {TopSecret, KvSecret}}
    \cup {Setup(SetupBody(c, n)) :
            c \in {Undefined, DefaultSecret, TopSecret, KvSecret},
            n \in {ShortSecret, NewSecret}}
    \cup {Post(Body(ValidUrl, ValidName, ValidContent))}

InitSecret ==
    /\ Deployed(Envs(EnvSecrets, {Undefined, KvSecret}, {IndexOrder}))
    /\ input = <<>> /\ output = NoOutput

NextSecret ==
    \/ \E rq \in SecretRequests : createCommentBegin(1, rq)
    \/ createCommentInsert(1)
    \/ createCommentSelect(1)
    \/ \E rq \in SecretRequests : deleteCommentBegin(1, rq)
    \/ deleteCommentExists(1)
    \/ deleteCommentDelete(1)
    \/ \E rq \in SecretRequests : getAllCommentsBegin(1, rq)
    \/ getAllCommentsSelect(1)
    \/ \E rq \in SecretRequests : adminPage(1, rq)
    \/ \E rq \in SecretRequests : defaultResponse(1, rq)

SpecSecret == InitSecret /\ [][NextSecret]_vars

----------------------------------------------------------------------------
(* The sanitizer, applied to every string of at most MaxLen characters     *)

SanitizerChars == {"a", " ", "&", "<", ">", "\"", "'"}

SanitizerInputs ==
    UNION { [1..n -> SanitizerChars] : n \in 0..MaxLen }

InitSanitizer ==
    /\ Deployed(Envs({TopSecret}, {Undefined}, {IndexOrder}))
    /\ input \in SanitizerInputs
    /\ output = NoOutput

Sanitize ==
    /\ ~output.done
    /\ output' = [done |-> TRUE, value |-> sanitizeInput(input)]
    /\ UNCHANGED <<store, env, pc, req, loc, ops, last, nreq, hist, input>>

NextSanitizer == Sanitize

SpecSanitizer == InitSanitizer /\ [][NextSanitizer]_vars

----------------------------------------------------------------------------
(* What the specification says, in the terms of the model *)

\* A response was sent in this step; last' is that response.
Answers ==
    \/ nreq' = nreq + 1 /\ pc' = pc
    \/ \E r \in Slots : pc[r] # "idle" /\ pc'[r] = "idle"

\* Every store statement of the log succeeded.
StoreOk(log) == \A i \in DOMAIN log : log[i].ok

\* The response is st, or a 500 after a store statement failed.
AnsweredOrStoreFailed(st) ==
    \/ last.resp.status = st
    \/ last.resp.status = 500 /\ ~StoreOk(last.ops)

IsGet(rq)  == Route(rq) = "getComments"
IsPost(rq) == Route(rq) = "createComment" /\ rq.body.kind = "object"

AMP == <<"&", "a", "m", "p", ";">>

\* The Sanitizer's contract (spec 4.1): trim, then escape & first, then < > " '.
sanitize(s) ==
    replaceAll(replaceAll(replaceAll(replaceAll(replaceAll(trim(s),
        "&", AMP), "<", LT), ">", GT), "\"", QUOT), "'", APOS)

\* The Validator's rules (spec 4.2), field by field.
UrlRuleOk(v)     == ~Falsy(v) /\ URLParses(StringOf(v))
NameRuleOk(v)    == v.t = "string" /\ Len(trim(v.s)) \in 1..NameMax
ContentRuleOk(v) == v.t = "string" /\ Len(trim(v.s)) \in 1..ContentMax

Fields == <<"page_url", "author_name", "comment_content">>

RuleOk(b, f) ==
    CASE f = "page_url"        -> UrlRuleOk(b.page_url)
      [] f = "author_name"     -> NameRuleOk(b.author_name)
      [] f = "comment_content" -> ContentRuleOk(b.comment_content)

Violations(b) == {f \in {Fields[i] : i \in DOMAIN Fields} : ~RuleOk(b, f)}

\* The messages that report a violation of the rule of field f.
Messages(f) ==
    CASE f = "page_url" ->
            {"page_url is required", "Invalid page_url format"}
      [] f = "author_name" ->
            {"author_name is required", "author_name cannot be empty",
             "author_name must be 100 characters or less"}
      [] f = "comment_content" ->
            {"comment_content is required", "comment_content cannot be empty",
             "comment_content must be 1000 characters or less"}

\* The error texts that hold one message for each field of V, joined by "; ".
CombinedMessages(V) ==
    LET fs == SelectSeq(Fields, LAMBDA f : f \in V)
    IN  { join([i \in DOMAIN fs |-> m[fs[i]]], "; ") :
            m \in { n \in [V -> UNION {Messages(f) : f \in V}] :
                      \A f \in V : n[f] \in Messages(f) } }

----------------------------------------------------------------------------
(* C1: after a POST /api/comments was answered 201 and while no DELETE of  *)
(* its comment was answered 200, every GET /api/comments with the same     *)
(* page_url that is answered 200 lists the comment, with author_name and   *)
(* comment_content equal to the sanitized form (trimmed, & < > " '         *)
(* escaped) of the values submitted.                                       *)

Lists(result, g) ==
    \E i \in DOMAIN result :
        /\ result[i].id = g.id
        /\ result[i].author_name = sanitize(g.body.author_name.s)
        /\ result[i].comment_content = sanitize(g.body.comment_content.s)

C1_PostThenGet ==
    [][ \A r \in Slots :
          (pc[r] = "getComments:select" /\ pc'[r] = "idle"
                /\ last'.resp.status = 200)
          => \A g \in posted :
                g.body.page_url = req[r].page_url
                => Lists(last'.resp.body.comments, g) ]_vars

(* C2: sanitizeInput(text) is text trimmed, with & replaced by &amp; first *)
(* and then < > " ' replaced by their character references.                *)
C2_SanitizerContract == output.done => output.value = sanitize(input)

(* C3: a request dispatched to deleteComment, getAllComments or the admin  *)
(* page goes past the authorization check only with a secret that is a     *)
(* non-empty string equal to the resolved admin secret; every other such   *)
(* request is answered 401 and has issued no store statement.              *)

AdminGated(rq) == Route(rq) \in {"deleteComment", "getAllComments", "admin"}

SecretMatches(rq) ==
    rq.secret.t = "string" /\ Len(rq.secret.s) > 0 /\ rq.secret = adminSecret(env)

C3_AdminGate ==
    /\ \A r \in Slots : pc[r] # "idle" /\ AdminGated(req[r]) => SecretMatches(req[r])
    /\ AdminGated(last.req) =>
          IF SecretMatches(last.req)
          THEN last.resp.status # 401
          ELSE last.resp.status = 401 /\ last.ops = <<>>

C3_Witness ==
    /\ Route(last.req) = "deleteComment"
    /\ existsById(comments, commentId(last.req))
    /\ last.req.secret.t = "string" /\ Len(last.req.secret.s) > 0
    /\ ~SecretMatches(last.req)
    /\ last.resp.status = 401

(* C4: a POST /api/comments whose submission violates a rule of the        *)
(* validator is answered 400, has issued no store statement, and leaves    *)
(* the table as it was.                                                    *)
C4_RejectedBeforeStore ==
    [][ (Answers /\ IsPost(last'.req) /\ Violations(last'.req.body) # {})
        => /\ last'.resp.status = 400
           /\ last'.ops = <<>>
           /\ comments' = comments /\ seq' = seq ]_vars

C4_Witness ==
    /\ IsPost(last.req) /\ Violations(last.req.body) # {}
    /\ last.resp.status = 400 /\ last.ops = <<>>
    /\ comments # {}

(* C5: a POST /api/comments is answered 400 exactly when some field        *)
(* violates its rule, and then the error text holds one message for each   *)
(* violating field, in the order page_url, author_name, comment_content,   *)
(* joined by "; ".                                                         *)
C5_AllViolationsReported ==
    IsPost(last.req) =>
        IF Violations(last.req.body) = {}
        THEN last.resp.status # 400
        ELSE /\ last.resp.status = 400
             /\ last.resp.body.error \in CombinedMessages(Violations(last.req.body))

C5_Witness ==
    /\ IsPost(last.req)
    /\ Cardinality(Violations(last.req.body)) = 3
    /\ last.resp.status = 400

(* C6: with page_url and comment_content valid, a POST /api/comments whose *)
(* author_name has trimmed length 101 is answered 400 with the message     *)
(* "author_name must be 100 characters or less", and one whose author_name *)
(* has trimmed length 1..100 is answered 201 (500 if the store fails),     *)
(* whatever its length before trimming or after escaping.                  *)

OthersValid(b, f) ==
    /\ b.page_url.t = "string"
    /\ \A g \in {Fields[i] : i \in DOMAIN Fields} \ {f} : RuleOk(b, g)

C6_AuthorNameLimit ==
    (IsPost(last.req) /\ OthersValid(last.req.body, "author_name")
                     /\ last.req.body.author_name.t = "string")
    => LET n == Len(trim(last.req.body.author_name.s))
       IN  /\ n = NameMax + 1 =>
                /\ last.resp.status = 400
                /\ last.resp.body.error = "author_name must be 100 characters or less"
           /\ n \in 1..NameMax => AnsweredOrStoreFailed(201)

C6_Witness ==
    /\ IsPost(last.req) /\ OthersValid(last.req.body, "author_name")
    /\ last.req.body.author_name.t = "string"
    /\ Len(trim(last.req.body.author_name.s)) = NameMax
    /\ Len(last.req.body.author_name.s) > NameMax
    /\ last.resp.status = 201

(* C7: with page_url and author_name valid, a POST /api/comments whose     *)
(* comment_content has trimmed length 1001 is answered 400 and one whose   *)
(* comment_content has trimmed length 1..1000 is answered 201 (500 if the  *)
(* store fails), also when its escaped form is longer than 1000.           *)
C7_CommentContentLimit ==
    (IsPost(last.req) /\ OthersValid(last.req.body, "comment_content")
                     /\ last.req.body.comment_content.t = "string")
    => LET n == Len(trim(last.req.body.comment_content.s))
       IN  /\ n = ContentMax + 1 => last.resp.status = 400
           /\ n \in 1..ContentMax => AnsweredOrStoreFailed(201)

C7_Witness ==
    /\ IsPost(last.req) /\ OthersValid(last.req.body, "comment_content")
    /\ last.req.body.comment_content.t = "string"
    /\ Len(trim(last.req.body.comment_content.s)) = ContentMax
    /\ Len(sanitize(last.req.body.comment_content.s)) > ContentMax
    /\ last.resp.status = 201

(* C8: a page_url that is missing, or that does not parse as an absolute   *)
(* URL with a scheme and a host, is answered 400 by GET and by POST        *)
(* /api/comments.                                                          *)

\* The page_url of a request to /api/comments
PageUrlOf(rq) == IF IsGet(rq) THEN rq.page_url ELSE rq.body.page_url

\* s has the form scheme://host...
HasSchemeAndHost(s) ==
    LET t == trim(s)
        k == SkipWhile(t, 1, Alpha \cup Digits)
        rest == SubSeq(t, k + 1, Len(t))
        e == SkipUntil(rest, 3, {"/", "#", ":"})
    IN  /\ Len(t) > 0 /\ t[1] \in Alpha /\ k <= Len(t) /\ t[k] = ":"
        /\ Len(rest) >= 3 /\ rest[1] = "/" /\ rest[2] = "/"
        /\ e > 3

C8_SchemeAndHostRequired ==
    ((IsGet(last.req) \/ IsPost(last.req))
        /\ (\/ Falsy(PageUrlOf(last.req))
            \/ ~URLParses(StringOf(PageUrlOf(last.req)))
            \/ ~HasSchemeAndHost(StringOf(PageUrlOf(last.req)))))
    => last.resp.status = 400

(* C8, amended: a page_url that is missing or empty, or that new URL()     *)
(* rejects (no scheme, or an http URL without a host, or a host with a     *)
(* forbidden character), is answered 400 by GET and by POST                *)
(* /api/comments; a URL with a scheme and no host, such as a:b, parses.    *)
C8_UnparsableRejected ==
    ((IsGet(last.req) \/ IsPost(last.req))
        /\ (\/ Falsy(PageUrlOf(last.req))
            \/ ~URLParses(StringOf(PageUrlOf(last.req)))))
    => last.resp.status = 400

C8_Witness ==
    /\ IsGet(last.req)
    /\ last.req.page_url = Str(NotAUrl)
    /\ last.resp.status = 400
    /\ comments # {}

(* C9: a DELETE /api/comments/:id for an id that is not in the table is    *)
(* answered 404 with the correct secret (500 if the store fails), and a    *)
(* DELETE with a missing or incorrect secret is answered 401 whether the   *)
(* id is in the table or not.                                              *)
C9_AuthBeforeExistence ==
    [][ (Answers /\ Route(last'.req) = "deleteComment")
        => /\ ~SecretMatches(last'.req) => last'.resp.status = 401
           /\ (SecretMatches(last'.req)
                  /\ ~existsById(comments, commentId(last'.req)))
              => \/ last'.resp.status = 404
                 \/ last'.resp.status = 500 /\ ~StoreOk(last'.ops) ]_vars

C9_Witness ==
    /\ Route(last.req) = "deleteComment"
    /\ ~SecretMatches(last.req)
    /\ ~existsById(comments, commentId(last.req))
    /\ comments # {}
    /\ last.resp.status = 401

(* C10: once a DELETE /api/comments/:id was answered 200, the row is gone  *)
(* for good: every GET /api/comments/all answered 200 from then on lists   *)
(* no comment of that id, and every DELETE of that id that looks the       *)
(* comment up from then on is answered 404 (500 if the store fails).       *)
C10_DeletedStaysDeleted ==
    [][ /\ \A id \in deleted' : ~existsById(comments', id)
        /\ \A r \in Slots :
             (pc[r] = "getAllComments:select" /\ pc'[r] = "idle"
                   /\ last'.resp.status = 200)
             => \A i \in DOMAIN last'.resp.body.comments :
                   last'.resp.body.comments[i].id \notin deleted
        /\ \A r \in Slots :
             (pc[r] = "deleteComment:exists" /\ pc'[r] # pc[r]
                   /\ commentId(req[r]) \in deleted)
             => /\ pc'[r] = "idle"
                /\ \/ last'.resp.status = 404
                   \/ last'.resp.status = 500 /\ ~StoreOk(last'.ops) ]_vars

C10_Witness ==
    /\ Route(last.req) = "deleteComment"
    /\ commentId(last.req) \in deleted
    /\ last.resp.status = 404
    /\ comments # {}

(* C11: a DELETE request to /api/comments/:id whose :id is not a run of    *)
(* digits is answered 400 and issues no store statement.                   *)

\* rq is a DELETE below /api/comments/ whose last segment does not match ^\d+$
DeleteOfInvalidId(rq) ==
    /\ rq.method = "DELETE" /\ rq.path.dir = "/api/comments/"
    /\ \/ Len(rq.path.tail) = 0
       \/ \E i \in 1..Len(rq.path.tail) : rq.path.tail[i] \notin Digits

C11_InvalidIdRejected ==
    DeleteOfInvalidId(last.req) => last.resp.status = 400 /\ last.ops = <<>>

(* C12: a GET /api/comments with a valid page_url whose SELECT succeeds is *)
(* answered 200 with exactly the rows of the table whose page_url equals   *)
(* the parameter and whose status is approved, each once, by created_at    *)
(* ascending, and with their number as count: an empty list and count 0    *)
(* when there is no such row.                                              *)

\* The rows of the table a public listing of pageUrl is to return
Approved(rows, pageUrl) ==
    {c \in rows : c.page_url = pageUrl /\ c.status = "approved"}

C12_ListByPage ==
    [][ \A r \in Slots :
          (pc[r] = "getComments:select" /\ pc'[r] = "idle")
          => \/ last'.resp.status = 500 /\ ~StoreOk(last'.ops)
             \/ LET result == last'.resp.body.comments
                    want   == Approved(comments, req[r].page_url.s)
                IN  /\ last'.resp.status = 200
                    /\ Len(result) = Cardinality(want)
                    /\ {result[i] : i \in DOMAIN result} = {Public(c) : c \in want}
                    /\ \A i, j \in DOMAIN result :
                          i < j => result[i].created_at <= result[j].created_at
                    /\ last'.resp.body.count = Cardinality(want) ]_vars

C12_Witness ==
    /\ IsGet(last.req) /\ last.req.page_url = Str(UrlPlain)
    /\ last.resp.status = 200 /\ last.resp.body.count = 1
    /\ Held \in comments
    /\ Cardinality(comments) = 2
    /\ pc[1] = "idle"
(* C13: a GET /api/comments answered 200 lists the comments of the page in *)
(* the order of their insertion, which is the order of their ids: by       *)
(* created_at, and comments of equal created_at by ascending id.           *)
C13_InsertionOrder ==
    (IsGet(last.req) /\ last.resp.status = 200)
    => \A i, j \in DOMAIN last.resp.body.comments :
          i < j => last.resp.body.comments[i].id < last.resp.body.comments[j].id

(* C14: a GET /api/comments/all with the correct secret is answered 200    *)
(* (500 if the store fails) with every row of the table, each once and     *)
(* with its status, whatever that status is, by created_at descending.     *)
C14_ListAll ==
    [][ (Answers /\ Route(last'.req) = "getAllComments" /\ SecretMatches(last'.req))
        => \/ last'.resp.status = 500 /\ ~StoreOk(last'.ops)
           \/ LET result == last'.resp.body.comments
              IN  /\ last'.resp.status = 200
                  /\ Len(result) = Cardinality(comments)
                  /\ \A c \in comments :
                        \E i \in DOMAIN result :
                            /\ result[i].id = c.id
                            /\ result[i].status = c.status
                            /\ Public(result[i]) = Public(c)
                  /\ \A i, j \in DOMAIN result :
                        i < j => result[i].created_at >= result[j].created_at
                  /\ last'.resp.body.count = Cardinality(comments) ]_vars

C14_Witness ==
    /\ Route(last.req) = "getAllComments" /\ last.resp.status = 200
    /\ last.resp.body.count = 2
    /\ last.resp.body.comments[1].created_at > last.resp.body.comments[2].created_at
    /\ last.resp.body.comments[2].status = "pending"
    /\ last.resp.body.comments[1].status = "approved"

(* C15: every admin-gated request is authorized against the secret that    *)
(* the chain resolves: the value in the KV store if there is one, else the *)
(* variable ADMIN_SECRET_KEY if it is set, else the development default;   *)
(* the chain always yields a string.                                       *)

\* SecretStore.resolve (spec 4.3; README, lines 107-110)
resolve(e) ==
    IF ~Falsy(e.SECRETS) THEN e.SECRETS
    ELSE IF ~Falsy(e.ADMIN_SECRET_KEY) THEN e.ADMIN_SECRET_KEY
    ELSE DefaultSecret

\* isAuthorized (spec 4.3) of the secret a request supplies, against secret k
Supplies(rq, k) ==
    rq.secret.t = "string" /\ Len(rq.secret.s) > 0 /\ rq.secret = k

C15_ResolutionChain ==
    /\ resolve(env).t = "string"
    /\ AdminGated(last.req) =>
          (last.resp.status # 401 <=> Supplies(last.req, resolve(env)))

(* C16: a POST /setup whose newSecret has fewer than 8 characters is       *)
(* answered 400 and changes no secret; one whose newSecret has 8 or more   *)
(* characters, with no currentSecret or the resolved one, is answered 200, *)
(* and the admin-gated request that follows it is authorized exactly when  *)
(* it supplies the new secret.                                             *)

MinSecret == 8

IsSetup(rq) == rq.method = "POST" /\ rq.path = Path("/setup", <<>>)

\* The current-secret check of SecretStore.update lets the request through.
Permitted(rq, e) ==
    Falsy(rq.body.currentSecret) \/ rq.body.currentSecret = resolve(e)

C16_SetupRotates ==
    [][ Answers
        => /\ (IsSetup(last'.req) /\ Len(last'.req.body.newSecret.s) < MinSecret)
              => last'.resp.status = 400 /\ env' = env
           /\ (IsSetup(last'.req) /\ Len(last'.req.body.newSecret.s) >= MinSecret
                    /\ Permitted(last'.req, env))
              => last'.resp.status = 200
           /\ (IsSetup(last.req) /\ Len(last.req.body.newSecret.s) >= MinSecret
                    /\ last.resp.status = 200 /\ AdminGated(last'.req))
              => (last'.resp.status # 401
                    <=> Supplies(last'.req, last.req.body.newSecret)) ]_vars

(* C17: in a deployment with a secret configured, a POST /setup whose      *)
(* currentSecret differs from the resolved secret is answered 401 and      *)
(* changes no secret, so the admin-gated request that follows it is still  *)
(* authorized by the previous secret.                                      *)

\* A secret is configured: in the KV store or in the variable.
Configured(e) == ~Falsy(e.SECRETS) \/ ~Falsy(e.ADMIN_SECRET_KEY)

WrongCurrent(rq, e) ==
    /\ IsSetup(rq) /\ Configured(e)
    /\ ~Falsy(rq.body.currentSecret) /\ rq.body.currentSecret # resolve(e)

C17_WrongCurrentSecret ==
    [][ Answers
        => /\ WrongCurrent(last'.req, env)
              => last'.resp.status = 401 /\ env' = env
           /\ (WrongCurrent(last.req, env) /\ AdminGated(last'.req))
              => (last'.resp.status # 401 <=> Supplies(last'.req, resolve(env))) ]_vars

(* C18: every row a create inserts has an id greater than every id         *)
(* assigned before it, those of the rows in the table and those of the     *)
(* rows deleted since: no id is assigned twice.                            *)
C18_IdsNeverReused ==
    [][ \A c \in comments' \ comments :
          /\ \A d \in comments : c.id > d.id
          /\ \A i \in deleted : c.id > i ]_vars

C18_Witness ==
    /\ IsPost(last.req) /\ last.resp.status = 201
    /\ last.resp.body.comment.id = 2
    /\ 1 \in deleted
    /\ {c.id : c \in comments} = {2}

(* C19: every row a POST /api/comments inserts has status approved, and    *)
(* every comment a GET /api/comments answered 200 lists is a row of the    *)
(* table whose status is approved.                                         *)
C19_ApprovedOnly ==
    [][ /\ \A c \in comments' \ comments : c.status = "approved"
        /\ \A r \in Slots :
             (pc[r] = "getComments:select" /\ pc'[r] = "idle"
                   /\ last'.resp.status = 200)
             => \A i \in DOMAIN last'.resp.body.comments :
                   \E c \in comments :
                       /\ c.id = last'.resp.body.comments[i].id
                       /\ c.status = "approved" ]_vars

C19_Witness ==
    /\ IsGet(last.req) /\ last.resp.status = 200
    /\ \E c \in comments : c.status # "approved" /\ c.page_url = last.req.page_url.s
    /\ \E g \in posted :
          /\ g.body.page_url = last.req.page_url
          /\ last.resp.body.comments = <<Public(CHOOSE c \in comments : c.id = g.id)>>

(* C20: a GET /api/comments changes nothing in the store, and when it is   *)
(* answered 200 right after the same GET was answered 200, no create or    *)
(* delete in between, its answer is the same: the same comments in the     *)
(* same order, the same count.                                             *)
C20_GetIdempotent ==
    [][ \A r \in Slots :
          /\ (IsGet(req[r]) \/ IsGet(req'[r]))
             => comments' = comments /\ seq' = seq
          /\ (pc[r] = "getComments:select" /\ pc'[r] = "idle"
                 /\ last.req = req[r] /\ last.resp.status = 200
                 /\ last'.resp.status = 200)
             => last'.resp.body = last.resp.body ]_vars

\* The same GET is in flight again after it listed two comments of equal
\* created_at.
C20_Witness ==
    /\ pc[1] = "getComments:select" /\ req[1] = last.req
    /\ last.resp.status = 200 /\ last.resp.body.count = 2
    /\ last.resp.body.comments[1].created_at = last.resp.body.comments[2].created_at
    /\ last.resp.body.comments[1].id > last.resp.body.comments[2].id

(* C21: no handler has two store steps with room for another request's     *)
(* write between them: while a request that has issued a store statement   *)
(* awaits its next one, the table does not change.                         *)

\* Request r has issued a store statement and is suspended before another.
BetweenStoreSteps(r) == pc[r] # "idle" /\ ops[r] # <<>>

C21_NoWriteBetweenSteps ==
    [][ \A r \in Slots :
          (BetweenStoreSteps(r) /\ pc'[r] = pc[r] /\ ops'[r] = ops[r])
          => comments' = comments ]_vars

(* C22: a POST /api/comments answered 201 carries in comment the full row  *)
(* that this request inserted: its id, its created_at, its page_url,       *)
(* author_name and comment_content as stored, and its status, whatever     *)
(* other requests do meanwhile.                                            *)
C22_CreatedRowReturned ==
    [][ \A r \in Slots :
          (pc[r] = "createComment:select" /\ pc'[r] = "idle"
                /\ last'.resp.status = 201)
          => \E t \in 0..MaxTime :
                last'.resp.body.comment =
                    Row(loc[r].id, loc[r].page_url, loc[r].author_name,
                        loc[r].comment_content, t) ]_vars

(* C23: a request in whose handling an exception is raised (the body does  *)
(* not parse, a field has no such method, a store statement fails) is      *)
(* answered with a JSON 500 whose error is one of the handlers' fixed      *)
(* texts; every 500 is of that form.                                       *)

GenericErrors ==
    { "Failed to retrieve comments", "Failed to create comment",
      "Failed to delete comment" }

\* The handling of rq, with the store statements of log, raised an exception.
Raised(rq, log) ==
    \/ ~StoreOk(log)
    \/ /\ Route(rq) = "createComment"
       /\ \/ rq.body.kind # "object"
          \/ Violations(rq.body) = {} /\ rq.body.page_url.t # "string"

C23_ExceptionsCaught ==
    (Raised(last.req, last.ops) \/ last.resp.status = 500)
    => /\ last.resp.status = 500
       /\ last.resp.type = "application/json"
       /\ last.resp.body.error \in GenericErrors

C23_Witness ==
    /\ Route(last.req) = "createComment" /\ last.req.body.kind = "malformed"
    /\ last.ops = <<>>
    /\ last.resp = Json(500, [error |-> "Failed to create comment"])

(* C24: a request one of whose store statements fails issues no statement  *)
(* after the failure and is answered 500 with a fixed text; when it is a   *)
(* create it has added no row and when it is a delete it has removed none. *)

\* The request with log log has written to the table with statement stmt.
Wrote(log, stmt) == \E i \in DOMAIN log : log[i].stmt = stmt /\ log[i].ok

C24_FailureLeavesNoTrace ==
    ~StoreOk(last.ops)
    => /\ last.resp.status = 500
       /\ last.resp.body.error \in GenericErrors
       /\ \A i \in DOMAIN last.ops : ~last.ops[i].ok => i = Len(last.ops)
       /\ ~Wrote(last.ops, "INSERT")
       /\ ~Wrote(last.ops, "DELETE")

(* C25: every JSON response, whatever its route and status, carries the    *)
(* headers Access-Control-Allow-Origin: *, Access-Control-Allow-Methods:   *)
(* GET, POST, DELETE, OPTIONS and Access-Control-Allow-Headers:            *)
(* Content-Type.                                                           *)

HasHeader(resp, name, value) ==
    name \in DOMAIN Headers(resp) /\ Headers(resp)[name] = value

C25_JsonCarriesCors ==
    last.resp.type = "application/json"
    => /\ HasHeader(last.resp, "Access-Control-Allow-Origin", "*")
       /\ HasHeader(last.resp, "Access-Control-Allow-Methods",
                    "GET, POST, DELETE, OPTIONS")
       /\ HasHeader(last.resp, "Access-Control-Allow-Headers", "Content-Type")

C25_Witness ==
    /\ Route(last.req) = "deleteComment" /\ last.resp.status = 404
    /\ last.resp.type = "application/json"
    /\ HasHeader(last.resp, "Access-Control-Allow-Methods",
                 "GET, POST, DELETE, OPTIONS")

(* C26: a POST /api/comments is answered 400 or 201 whatever its body is   *)
(* (text that is not JSON, JSON that is not an object, fields that are not *)
(* strings); it is answered 500 only when a store statement failed.        *)
C26_BadBodyIsClientError ==
    Route(last.req) = "createComment"
    => \/ last.resp.status \in {400, 201}
       \/ last.resp.status = 500 /\ ~StoreOk(last.ops)

(* C27: the table changes only by the INSERT of a POST /api/comments that  *)
(* is answered 201, which adds one row, and by the DELETE of a DELETE      *)
(* /api/comments/:id that is answered 200, which removes the row of that   *)
(* id; a request answered 400, 401, 404 or 405, a GET and an OPTIONS have  *)
(* written nothing; no row of the table is ever changed.                   *)
C27_Frame ==
    [][ /\ \A c \in comments, d \in comments' : c.id = d.id => c = d
        /\ comments' # comments
           => \E r \in Slots :
                 \/ /\ pc[r] = "createComment:insert"
                    /\ \E c \in comments' \ comments : comments' = comments \cup {c}
                 \/ /\ pc[r] = "deleteComment:delete"
                    /\ comments' = {c \in comments : c.id # commentId(req[r])}
        /\ Answers
           => /\ Wrote(last'.ops, "INSERT") => last'.resp.status = 201
              /\ Wrote(last'.ops, "DELETE") => last'.resp.status = 200
              /\ (\/ last'.resp.status \in {400, 401, 404, 405}
                  \/ last'.req.method \in {"GET", "OPTIONS"})
                 => ~Wrote(last'.ops, "INSERT") /\ ~Wrote(last'.ops, "DELETE") ]_vars

(* C28: author_name and comment_content of every row createComment has     *)
(* inserted are non-empty, neither begin nor end with whitespace, and hold *)
(* none of the characters < > " '.                                         *)

Clean(s) ==
    /\ Len(s) > 0
    /\ s[1] \notin WhiteSpace /\ s[Len(s)] \notin WhiteSpace
    /\ \A i \in DOMAIN s : s[i] \notin {"<", ">", "\"", "'"}

C28_StoredFieldsClean ==
    \A c \in comments : Clean(c.author_name) /\ Clean(c.comment_content)

C28_Witness ==
    \E c \in comments :
        \E g \in posted :
            /\ g.id = c.id
            /\ g.body.author_name = Str(<<" ", "a", "&", "<", " ">>)
            /\ c.author_name = <<"a", "&">> \o LT

(* C29: of the DELETE requests with the correct secret for one id, at most *)
(* one is answered 200, however their existence checks and DELETE          *)
(* statements interleave: no DELETE is answered 200 for an id for which a  *)
(* DELETE was answered 200 before.                                         *)
C29_OneDeleteSucceeds ==
    [][ \A r \in Slots :
          (pc[r] = "deleteComment:delete" /\ pc'[r] = "idle"
                /\ last'.resp.status = 200)
          => commentId(req[r]) \notin deleted ]_vars

(* C30: sanitizeInput is idempotent: applied to its own result, it returns *)
(* that result.                                                            *)
C30_SanitizeIdempotent ==
    output.done => sanitizeInput(output.value) = output.value

C30_Witness ==
    /\ output.done
    /\ input = <<" ", "<", "&">>
    /\ output.value = LT \o <<"&">>

====
